---- MODULE Spec2Model ----
(***************************************************************************)
(* Model of the StockDashboard class of sustainthread/daily-stock-analysis. *)
(* The repository holds two variants of the class:                          *)
(*   "dashboard" : src/frontend/js/dashboard.js                             *)
(*   "part_000"  : src/unnamed/part_000                                     *)
(* The variable `variant` says which of the two files is loaded in the page *)
(* and never changes.  Operators that differ between the files come in two  *)
(* versions, suffixed _dashboard and _part000.                              *)
(*                                                                          *)
(* Encoding of JavaScript values:                                           *)
(*   - strings that are lowercased or searched are sequences of characters; *)
(*   - an optional field is [has |-> BOOLEAN, v |-> value] (has = FALSE is  *)
(*     `undefined`);                                                        *)
(*   - prices are integers counting hundredths (185.43 is 18543);           *)
(*   - a number that may be NaN is [nan |-> BOOLEAN, v |-> Int];            *)
(*   - a JSON value is [shape, member, items] (see Payloads).               *)
(* The page's HTML is not part of the repository: every element the code    *)
(* looks up by id is taken to exist.  The fields catalyst, analysis,        *)
(* volume, avg_volume, data_source and lastUpdated only feed text that no   *)
(* branch depends on and are left out.                                      *)
(***************************************************************************)
EXTENDS Integers, Sequences, FiniteSets, TLC

VARIABLES variant, pc, response, fetchCount, uncaught,
          stocks, filteredStocks, currentRegion, searchTerm,
          errorShown, statsText, grid, loadingHidden

vars == <<variant, pc, response, fetchCount, uncaught,
          stocks, filteredStocks, currentRegion, searchTerm,
          errorShown, statsText, grid, loadingHidden>>

\* Longest record list a response carries in the model.
MaxLen == 2

----------------------------------------------------------------------------
\* Strings

LowerChar(c) ==
    CASE c = "A" -> "a" [] c = "B" -> "b" [] c = "C" -> "c" [] c = "D" -> "d"
      [] c = "E" -> "e" [] c = "F" -> "f" [] c = "G" -> "g" [] c = "H" -> "h"
      [] c = "I" -> "i" [] c = "J" -> "j" [] c = "K" -> "k" [] c = "L" -> "l"
      [] c = "M" -> "m" [] c = "N" -> "n" [] c = "O" -> "o" [] c = "P" -> "p"
      [] c = "Q" -> "q" [] c = "R" -> "r" [] c = "S" -> "s" [] c = "T" -> "t"
      [] c = "U" -> "u" [] c = "V" -> "v" [] c = "W" -> "w" [] c = "X" -> "x"
      [] c = "Y" -> "y" [] c = "Z" -> "z" [] OTHER -> c

\* String.prototype.toLowerCase
toLowerCase(s) == [i \in 1..Len(s) |-> LowerChar(s[i])]

\* String.prototype.includes
includes(hay, needle) ==
    \E i \in 0..(Len(hay) - Len(needle)) :
        SubSeq(hay, i + 1, i + Len(needle)) = needle

Undef == [has |-> FALSE, v |-> 0]
UndefStr == [has |-> FALSE, v |-> <<>>]
Some(x) == [has |-> TRUE, v |-> x]

----------------------------------------------------------------------------
\* Records

StockRecord(ticker, name, company_name, region, price, change, pct, score) ==
    [ticker |-> ticker, name |-> name, company_name |-> company_name,
     region |-> region, current_price |-> price, price_change |-> change,
     price_change_percent |-> pct, confidence_score |-> score]

S_AAPL == StockRecord(<<"A","A","P","L">>,
                      Some(<<"A","p","p","l","e"," ","I","n","c",".">>),
                      UndefStr, "US", Some(18543), Some(234), Some(128), Some(82))
S_MSFT == StockRecord(<<"M","S","F","T">>,
                      Some(<<"M","i","c","r","o","s","o","f","t"," ",
                             "C","o","r","p","o","r","a","t","i","o","n">>),
                      UndefStr, "US", Some(37885), Some(521), Some(139), Some(76))
S_TSCO == StockRecord(<<"T","S","C","O",".","L">>,
                      Some(<<"T","e","s","c","o"," ","P","L","C">>),
                      UndefStr, "UK", Some(29560), Some(420), Some(144), Some(68))
S_AIR == StockRecord(<<"A","I","R",".","P","A">>,
                      Some(<<"A","i","r","b","u","s"," ","S","E">>),
                      UndefStr, "EU", Some(14825), Some(185), Some(126), Some(71))

SAMPLE_DATA_dashboard == <<S_AAPL>>
SAMPLE_DATA_part000 == <<S_AAPL, S_MSFT, S_TSCO, S_AIR>>
SAMPLE_DATA(v) == IF v = "dashboard" THEN SAMPLE_DATA_dashboard
                  ELSE SAMPLE_DATA_part000

\* Records a live response may carry, besides the sample ones.
\* company_name instead of name, score 70
R_NVDA == StockRecord(<<"N","V","D","A">>, UndefStr,
                      Some(<<"N","V","I","D","I","A"," ","C","o","r","p">>),
                      "US", Some(13500), Some(-120), Some(-88), Some(70))
\* no price fields
R_NOPRICE == StockRecord(<<"T","S","C","O",".","L">>,
                      Some(<<"T","e","s","c","o"," ","P","L","C">>),
                      UndefStr, "UK", Undef, Undef, Undef, Some(68))
\* no confidence_score
R_NOSCORE == StockRecord(<<"S","A","P">>, Some(<<"S","A","P"," ","S","E">>),
                      Some(<<"S","A","P"," ","S","E">>),
                      "EU", Some(17010), Some(0), Some(0), Undef)
\* score outside 0..100
R_HOT == StockRecord(<<"G","M","E">>, Some(<<"G","a","m","e","S","t","o","p">>),
                      UndefStr, "US", Some(2500), Some(300), Some(1364), Some(120))

\* neither name nor company_name
R_NONAME == StockRecord(<<"I","B","M">>, UndefStr, UndefStr,
                      "US", Some(16200), Some(-45), Some(-28), Some(55))

RecordPool == {S_AAPL, S_AIR, R_NVDA, R_NOPRICE, R_NOSCORE, R_HOT, R_NONAME}

RecordLists == UNION {[1..n -> RecordPool] : n \in 0..MaxLen}

----------------------------------------------------------------------------
\* JSON values and fetch outcomes

Json(shape, member, items) == [shape |-> shape, member |-> member, items |-> items]
Array(items) == Json("array", "none", items)

\* Bodies of an ok response:
\*   invalid            not JSON, response.json() rejects
\*   null               the JSON value null
\*   object / absent    an object without a stocks member
\*   object / map       an object whose stocks member is an object keyed by ticker
\*   object / array     {last_updated, stocks: [...]}
\*   array              a bare array of records
Payloads ==
    {Json("invalid", "none", <<>>), Json("null", "none", <<>>),
     Json("object", "absent", <<>>), Json("object", "map", <<>>)}
    \cup {Json("object", "array", l) : l \in RecordLists}
    \cup {Array(l) : l \in RecordLists}

Pending == [kind |-> "pending", body |-> Json("null", "none", <<>>)]
Response(kind, body) == [kind |-> kind, body |-> body]

\* data-region of the filter buttons, and what the user may type
Regions == {"all", "US", "UK", "EU", "us"}
SearchInputs == {<<>>, <<"A","A","P">>, <<"i","n","c">>, <<"a">>,
                 <<"c","o","r","p">>}

----------------------------------------------------------------------------
\* The object (this) and the page (document) as values

Self(st, fs, region, term) ==
    [stocks |-> st, filteredStocks |-> fs, currentRegion |-> region,
     searchTerm |-> term]

Document(err, stats, g, hidden) ==
    [errorShown |-> err, statsText |-> stats, grid |-> g, loadingHidden |-> hidden]

\* What a method leaves behind: the object, the page, and the place an
\* exception escaped from ("none" when the method returned normally).
Outcome(self, dom, threw) == [self |-> self, dom |-> dom, threw |-> threw]

Number(n) == [nan |-> FALSE, v |-> n]
NaN == [nan |-> TRUE, v |-> 0]

NoStats == [written |-> FALSE, total |-> 0, high |-> 0, avg |-> Number(0)]
Stats(total, high, avg) ==
    [written |-> TRUE, total |-> total, high |-> high, avg |-> avg]

InitialGrid == [state |-> "initial", cards |-> <<>>]
NoResults == [state |-> "no-results", cards |-> <<>>]
Cards(cs) == [state |-> "cards", cards |-> cs]

\* Text produced by a template expression
Fixed(n) == [kind |-> "fixed", v |-> n]
NA == [kind |-> "N/A", v |-> 0]
NotShown == [kind |-> "none", v |-> 0]

constructor(v) ==
    Outcome(Self(Array(<<>>), <<>>, "all", <<>>),
            Document(FALSE, NoStats, InitialGrid, FALSE), "none")

----------------------------------------------------------------------------
\* loadData

\* [...x]
Spread(x) == [threw |-> x.shape # "array",
              items |-> IF x.shape = "array" THEN x.items ELSE <<>>]

\* The catch block of loadData
Fallback(v, self, dom) ==
    [self |-> [self EXCEPT !.stocks = Array(SAMPLE_DATA(v))],
     dom |-> [dom EXCEPT !.errorShown = TRUE]]

\* this.filteredStocks = [...this.stocks] and the return
LoadTail(self, dom) ==
    IF Spread(self.stocks).threw
    THEN Outcome(self, dom, "loadData")
    ELSE Outcome([self EXCEPT !.filteredStocks = Spread(self.stocks).items],
                 dom, "none")

\* TRUE when the try block of dashboard.js reaches this.stocks = data.stocks
Accepts_dashboard(resp) ==
    /\ resp.kind = "ok"
    /\ resp.body.shape = "object"
    /\ resp.body.member = "array"
    /\ Len(resp.body.items) > 0

loadData_dashboard(self, dom, resp) ==
    IF Accepts_dashboard(resp)
    THEN LoadTail([self EXCEPT !.stocks = Array(resp.body.items)], dom)
    ELSE LoadTail(Fallback("dashboard", self, dom).self,
                  Fallback("dashboard", self, dom).dom)

\* TRUE when the try block of part_000 reaches this.stocks = await response.json()
Accepts_part000(resp) ==
    /\ resp.kind = "ok"
    /\ resp.body.shape # "invalid"

loadData_part000(self, dom, resp) ==
    IF Accepts_part000(resp)
    THEN LoadTail([self EXCEPT !.stocks = resp.body], dom)
    ELSE LoadTail(Fallback("part_000", self, dom).self,
                  Fallback("part_000", self, dom).dom)

loadData(v, self, dom, resp) ==
    IF v = "dashboard" THEN loadData_dashboard(self, dom, resp)
    ELSE loadData_part000(self, dom, resp)

----------------------------------------------------------------------------
\* renderStats

RECURSIVE SumScores(_)
\* reduce((sum, s) => sum + s.confidence_score, 0); NaN once a score is undefined
SumScores(fs) ==
    IF fs = <<>> THEN Number(0)
    ELSE LET rest == SumScores(SubSeq(fs, 1, Len(fs) - 1))
             last == fs[Len(fs)].confidence_score
         IN IF rest.nan \/ ~last.has THEN NaN ELSE Number(rest.v + last.v)

\* Math.round(num / den) for integers num and den > 0: nearest integer,
\* a tie goes to the larger one
\* Math.floor in place of Math.round
MathFloorOfQuotient(num, den) == num \div den
MathRoundOfQuotient(num, den) == (2 * num + den) \div (2 * den)

\* s.confidence_score >= 70 (undefined >= 70 is false)
IsHighConfidence(s) == s.confidence_score.has /\ s.confidence_score.v >= 70

highConfidence(fs) == Len(SelectSeq(fs, IsHighConfidence))

\* the sum without the division by totalStocks
avgScoreUndivided(fs) == SumScores(fs)
avgScore(fs) ==
    IF Len(fs) > 0
    THEN IF SumScores(fs).nan THEN NaN
         ELSE Number(MathRoundOfQuotient(SumScores(fs).v, Len(fs)))
    ELSE Number(0)

renderStats(fs) == Stats(Len(fs), highConfidence(fs), avgScore(fs))

----------------------------------------------------------------------------
\* renderStockGrid

UndefinedText == <<"u","n","d","e","f","i","n","e","d">>

Card(ticker, region, name, price, change, pct, score) ==
    [ticker |-> ticker, region |-> region, name |-> name, price |-> price,
     change |-> change, pct |-> pct, score |-> score]

\* x || y for a string x
OrElse(x, y) == IF x.has /\ x.v # <<>> THEN x.v ELSE y

card_dashboard(s) ==
    Card(s.ticker, s.region, OrElse(s.company_name, s.ticker),
         IF s.current_price.has THEN Fixed(s.current_price.v) ELSE NA,
         NotShown,
         IF s.price_change_percent.has THEN Fixed(s.price_change_percent.v)
         ELSE Fixed(0),
         IF s.confidence_score.has THEN Some(s.confidence_score.v) ELSE Some(0))

\* undefined.toFixed raises TypeError
CardThrows_part000(s) ==
    ~s.current_price.has \/ ~s.price_change.has \/ ~s.price_change_percent.has

card_part000(s) ==
    Card(s.ticker, s.region, IF s.name.has THEN s.name.v ELSE UndefinedText,
         Fixed(s.current_price.v), Fixed(s.price_change.v),
         Fixed(s.price_change_percent.v), s.confidence_score)

renderStockGrid_dashboard(fs, g) ==
    IF Len(fs) = 0 THEN [threw |-> FALSE, grid |-> NoResults]
    ELSE [threw |-> FALSE,
          grid |-> Cards([i \in 1..Len(fs) |-> card_dashboard(fs[i])])]

renderStockGrid_part000(fs, g) ==
    IF Len(fs) = 0 THEN [threw |-> FALSE, grid |-> NoResults]
    ELSE IF \E i \in 1..Len(fs) : CardThrows_part000(fs[i])
    THEN [threw |-> TRUE, grid |-> g]
    ELSE [threw |-> FALSE,
          grid |-> Cards([i \in 1..Len(fs) |-> card_part000(fs[i])])]

renderStockGrid(v, fs, g) ==
    IF v = "dashboard" THEN renderStockGrid_dashboard(fs, g)
    ELSE renderStockGrid_part000(fs, g)

\* renderStats(); renderStockGrid(); hideLoading()
render(v, self, dom) ==
    LET withStats == [dom EXCEPT !.statsText = renderStats(self.filteredStocks)]
        g == renderStockGrid(v, self.filteredStocks, dom.grid)
    IN IF g.threw THEN Outcome(self, withStats, "renderStockGrid")
       ELSE Outcome(self, [withStats EXCEPT !.grid = g.grid,
                                            !.loadingHidden = TRUE], "none")

----------------------------------------------------------------------------
\* applyFilters

regionMatch(s, region) == region = "all" \/ s.region = region

searchMatch_dashboard(s, term) ==
    \/ term = <<>>
    \/ includes(toLowerCase(s.ticker), term)
    \/ /\ s.company_name.has
       /\ s.company_name.v # <<>>
       /\ includes(toLowerCase(s.company_name.v), term)

\* undefined.toLowerCase raises TypeError; reached only when the term is not
\* empty and the ticker does not contain it
SearchThrows_part000(s, term) ==
    /\ term # <<>>
    /\ ~includes(toLowerCase(s.ticker), term)
    /\ ~s.name.has

searchMatch_part000(s, term) ==
    \/ term = <<>>
    \/ includes(toLowerCase(s.ticker), term)
    \/ /\ s.name.has
       /\ includes(toLowerCase(s.name.v), term)

searchMatch(v, s, term) ==
    IF v = "dashboard" THEN searchMatch_dashboard(s, term)
    ELSE searchMatch_part000(s, term)

FilterThrows(v, items, term) ==
    /\ v = "part_000"
    /\ \E i \in 1..Len(items) : SearchThrows_part000(items[i], term)

Keep(v, items, region, term) ==
    LET Test(s) == regionMatch(s, region) /\ searchMatch(v, s, term)
    IN SelectSeq(items, Test)

\* a filter that narrows this.stocks itself
applyFiltersIntoStocks(v, self, dom) ==
    IF FilterThrows(v, self.stocks.items, self.searchTerm)
    THEN Outcome(self, dom, "applyFilters")
    ELSE render(v, [self EXCEPT
                      !.stocks = Array(Keep(v, self.stocks.items,
                                     self.currentRegion, self.searchTerm)),
                      !.filteredStocks = Keep(v, self.stocks.items,
                                     self.currentRegion, self.searchTerm)], dom)

applyFilters(v, self, dom) ==
    IF FilterThrows(v, self.stocks.items, self.searchTerm)
    THEN Outcome(self, dom, "applyFilters")
    ELSE render(v, [self EXCEPT !.filteredStocks =
                        Keep(v, self.stocks.items, self.currentRegion,
                             self.searchTerm)], dom)

\* the click listener of a .filter-btn whose data-region is r
onRegionClick(v, self, dom, r) ==
    applyFilters(v, [self EXCEPT !.currentRegion = r], dom)

\* the input listener of #stock-search when the field holds value
onSearchInput(v, self, dom, value) ==
    applyFilters(v, [self EXCEPT !.searchTerm = toLowerCase(value)], dom)

----------------------------------------------------------------------------
\* The page as a state machine

This == Self(stocks, filteredStocks, currentRegion, searchTerm)
Page == Document(errorShown, statsText, grid, loadingHidden)

\* Writes an Outcome back into the variables
Becomes(o) ==
    /\ stocks' = o.self.stocks
    /\ filteredStocks' = o.self.filteredStocks
    /\ currentRegion' = o.self.currentRegion
    /\ searchTerm' = o.self.searchTerm
    /\ errorShown' = o.dom.errorShown
    /\ statsText' = o.dom.statsText
    /\ grid' = o.dom.grid
    /\ loadingHidden' = o.dom.loadingHidden
    /\ uncaught' = o.threw

\* DOMContentLoaded: new StockDashboard() runs the constructor, init and
\* loadData up to the fetch, which is in flight.
Init ==
    /\ variant \in {"dashboard", "part_000"}
    /\ pc = "await_fetch"
    /\ response = Pending
    /\ fetchCount = 1
    /\ uncaught = "none"
    /\ stocks = constructor(variant).self.stocks
    /\ filteredStocks = constructor(variant).self.filteredStocks
    /\ currentRegion = constructor(variant).self.currentRegion
    /\ searchTerm = constructor(variant).self.searchTerm
    /\ errorShown = FALSE
    /\ statsText = NoStats
    /\ grid = InitialGrid
    /\ loadingHidden = FALSE

\* loadData has settled: init resumes when it fulfilled, and its promise is
\* rejected (nothing handles it) when it threw.
AfterLoad(o) ==
    /\ Becomes(o)
    /\ pc' = IF o.threw = "none" THEN "await_loadData" ELSE "rejected"

\* The fetch promise settles: rejected (network error), or fulfilled with a
\* response that is not ok, or fulfilled with an ok response carrying body.
FetchSettled(kind, body) ==
    /\ pc = "await_fetch"
    /\ response' = Response(kind, body)
    /\ IF kind = "ok"
       THEN /\ pc' = "await_json"
            /\ UNCHANGED <<stocks, filteredStocks, currentRegion, searchTerm,
                           errorShown, statsText, grid, loadingHidden, uncaught>>
       ELSE AfterLoad(loadData(variant, This, Page, Response(kind, body)))
    /\ UNCHANGED <<variant, fetchCount>>

\* response.json() settles and loadData runs to its end.
JsonSettled ==
    /\ pc = "await_json"
    /\ AfterLoad(loadData(variant, This, Page, response))
    /\ UNCHANGED <<variant, response, fetchCount>>

\* init after await this.loadData(): render(), then setupEventListeners().
InitResumes ==
    /\ pc = "await_loadData"
    /\ Becomes(render(variant, This, Page))
    /\ pc' = IF render(variant, This, Page).threw = "none" THEN "ready"
             ELSE "rejected"
    /\ UNCHANGED <<variant, response, fetchCount>>

RegionClick(r) ==
    /\ pc = "ready"
    /\ Becomes(onRegionClick(variant, This, Page, r))
    /\ UNCHANGED <<variant, pc, response, fetchCount>>

SearchInput(value) ==
    /\ pc = "ready"
    /\ Becomes(onSearchInput(variant, This, Page, value))
    /\ UNCHANGED <<variant, pc, response, fetchCount>>

Next ==
    \/ \E kind \in {"rejected", "notok"} :
          FetchSettled(kind, Json("null", "none", <<>>))
    \/ \E body \in Payloads : FetchSettled("ok", body)
    \/ JsonSettled
    \/ InitResumes
    \/ \E r \in Regions : RegionClick(r)
    \/ \E value \in SearchInputs : SearchInput(value)

Spec == Init /\ [][Next]_vars

TypeOK ==
    /\ variant \in {"dashboard", "part_000"}
    /\ pc \in {"await_fetch", "await_json", "await_loadData", "ready", "rejected"}
    /\ uncaught \in {"none", "loadData", "applyFilters", "renderStockGrid"}
    /\ currentRegion \in Regions
    /\ errorShown \in BOOLEAN
    /\ loadingHidden \in BOOLEAN

----------------------------------------------------------------------------
\* Properties

\* loadData has settled (fulfilled or thrown)
LoadSettled == pc \notin {"await_fetch", "await_json"}
\* loadData has returned normally
LoadDone == pc \in {"await_loadData", "ready"}

\* The stock list of a response in the format the variant reads:
\* {stocks: [...]} for dashboard.js, a bare array for part_000.
HasStockList(v, resp) ==
    /\ resp.kind = "ok"
    /\ IF v = "dashboard"
       THEN resp.body.shape = "object" /\ resp.body.member = "array"
       ELSE resp.body.shape = "array"
GoodLoad(v, resp) == HasStockList(v, resp) /\ Len(resp.body.items) > 0

\* C1: when loadData finishes, a failed, empty or malformed load leaves
\* this.stocks = SAMPLE_DATA.stocks (non-empty) with the banner shown, and a
\* load of a non-empty list leaves exactly that list with no banner.
C1_FallbackIffFailure ==
    LoadSettled =>
        IF GoodLoad(variant, response)
        THEN stocks = Array(response.body.items) /\ ~errorShown
        ELSE /\ stocks = Array(SAMPLE_DATA(variant))
             /\ Len(stocks.items) > 0
             /\ errorShown

\* C2: init never ends with an uncaught exception, and once it has passed
\* render the stats and the grid are written, the loading indicator is hidden
\* and only then the listeners are registered.
C2_LoadNeverFatal ==
    /\ pc # "rejected"
    /\ pc = "ready" =>
          statsText.written /\ grid.state # "initial" /\ loadingHidden

\* The display name of a record: name, or company_name in the other format
DisplayName(s) == IF s.name.has THEN s.name ELSE s.company_name

SpecSearchMatch(s, term) ==
    \/ term = <<>>
    \/ includes(toLowerCase(s.ticker), term)
    \/ /\ DisplayName(s).has
       /\ includes(toLowerCase(DisplayName(s).v), term)

SpecKeep(items, region, term) ==
    LET Test(s) == (region = "all" \/ s.region = region)
                   /\ SpecSearchMatch(s, term)
    IN SelectSeq(items, Test)

\* C3: after applyFilters has completed, filteredStocks holds, in their
\* original order, exactly the records whose region matches and whose ticker
\* or display name (lowercased) contains searchTerm.
C3_FilterBySpec ==
    (pc = "ready" /\ uncaught = "none") =>
        filteredStocks = SpecKeep(stocks.items, currentRegion, searchTerm)

NoName(s) == ~s.name.has /\ ~s.company_name.has

TickerKeep(items, region, term) ==
    LET Test(s) == NoName(s) /\ (region = "all" \/ s.region = region)
                   /\ includes(toLowerCase(s.ticker), term)
    IN SelectSeq(items, Test)

\* C4: with a record that has no name and a non-empty searchTerm, applyFilters
\* raises no error and keeps that record iff the region matches and its
\* lowercased ticker contains searchTerm.
C4_NoNameFallsBackToTicker ==
    (/\ pc = "ready"
     /\ searchTerm # <<>>
     /\ \E i \in 1..Len(stocks.items) : NoName(stocks.items[i])) =>
        /\ uncaught # "applyFilters"
        /\ SelectSeq(filteredStocks, NoName)
             = TickerKeep(stocks.items, currentRegion, searchTerm)

\* C5: renderStockGrid raises no error; the grid it wrote has one card per
\* filtered record, and the card of a record without current_price shows N/A.
C5_MissingPriceShowsSentinel ==
    /\ uncaught # "renderStockGrid"
    /\ grid.state = "cards" =>
          /\ Len(grid.cards) = Len(filteredStocks)
          /\ \A i \in 1..Len(filteredStocks) :
                /\ grid.cards[i].ticker = filteredStocks[i].ticker
                /\ ~filteredStocks[i].current_price.has
                      => grid.cards[i].price = NA

RECURSIVE SumPresent(_)
SumPresent(fs) ==
    IF fs = <<>> THEN 0
    ELSE SumPresent(Tail(fs))
         + (IF Head(fs).confidence_score.has THEN Head(fs).confidence_score.v
            ELSE 0)

\* nearest integer to num / den (den > 0), a tie going up
Nearest(a, num, den) == 2 * den * a - den <= 2 * num /\ 2 * num < 2 * den * a + den

\* C6: a record without confidence_score counts as 0 in the average, which is
\* always a number, and is not counted as high-confidence.
C6_MissingScoreIsZero ==
    statsText.written =>
        /\ ~statsText.avg.nan
        /\ Len(filteredStocks) > 0 =>
              Nearest(statsText.avg.v, SumPresent(filteredStocks),
                      Len(filteredStocks))
        /\ statsText.high =
              Cardinality({i \in 1..Len(filteredStocks) :
                  /\ filteredStocks[i].confidence_score.has
                  /\ filteredStocks[i].confidence_score.v >= 70})

AllScored(fs) == \A i \in 1..Len(fs) : fs[i].confidence_score.has

\* round half to even of num / den, den > 0
HalfEven(num, den) ==
    LET q == num \div den
        r == num % den
    IN IF 2 * r < den THEN q
       ELSE IF 2 * r > den THEN q + 1
       ELSE IF q % 2 = 0 THEN q ELSE q + 1

\* C7 as stated: the average of integer scores is 0 for the empty list and
\* otherwise sum / count rounded to nearest with ties to the even integer.
C7_AverageHalfEven ==
    (statsText.written /\ AllScored(filteredStocks)) =>
        /\ ~statsText.avg.nan
        /\ statsText.avg.v =
              IF Len(filteredStocks) = 0 THEN 0
              ELSE HalfEven(SumPresent(filteredStocks), Len(filteredStocks))

\* C7 amended: the average of integer scores is 0 for the empty list and
\* otherwise sum / count rounded to nearest with ties to the larger integer
\* (scores 70 and 71 give 71).
C7_AverageHalfUp ==
    (statsText.written /\ AllScored(filteredStocks)) =>
        /\ ~statsText.avg.nan
        /\ IF Len(filteredStocks) = 0 THEN statsText.avg.v = 0
           ELSE Nearest(statsText.avg.v, SumPresent(filteredStocks),
                        Len(filteredStocks))

\* the list holds the scores 70 and 71: the average 70.5 is a tie, shown as 71
C7_Witness ==
    /\ statsText.written
    /\ Len(filteredStocks) = 2
    /\ AllScored(filteredStocks)
    /\ {filteredStocks[1].confidence_score.v,
        filteredStocks[2].confidence_score.v} = {70, 71}
    /\ statsText.avg = Number(71)

InRange(fs) ==
    \A i \in 1..Len(fs) :
        /\ fs[i].confidence_score.has
        /\ fs[i].confidence_score.v \in 0..100

\* C8: the statistics on the page always have highConfidence <= total, and
\* 0 <= average <= 100 when every kept record's score lies in 0..100.
C8_StatsBounds ==
    statsText.written =>
        /\ statsText.total = Len(filteredStocks)
        /\ statsText.high <= statsText.total
        /\ InRange(filteredStocks) =>
              /\ ~statsText.avg.nan
              /\ statsText.avg.v \in 0..100

\* a region click and a search input have both acted and two records remain
C8_Witness ==
    /\ pc = "ready"
    /\ currentRegion = "US"
    /\ searchTerm = <<"a">>
    /\ statsText = Stats(2, 2, Number(76))
    /\ InRange(filteredStocks)

\* C9: once loadData has completed, no step changes this.stocks or starts a
\* fetch, and a filter event leaves the response and the banner alone too.
C9_FilterNeverTouchesStocks ==
    [][LoadDone =>
          /\ stocks' = stocks
          /\ fetchCount' = fetchCount
          /\ response' = response
          /\ errorShown' = errorShown]_vars

\* filter events have dropped records from the view while stocks is still
\* the list that was loaded
C9_Witness ==
    /\ pc = "ready"
    /\ currentRegion # "all"
    /\ searchTerm # <<>>
    /\ uncaught = "none"
    /\ Len(filteredStocks) < Len(stocks.items)
    /\ GoodLoad(variant, response)
    /\ stocks = Array(response.body.items)

\* C10: from the end of loadData on, filteredStocks is the order-preserving
\* filter of stocks under the current region and search term.
C10_ViewNeverStale ==
    LoadDone =>
        filteredStocks = Keep(variant, stocks.items, currentRegion, searchTerm)

====
